---- MODULE Spec2Model ----
(***************************************************************************)
(* TwilioAudioInterface (src/audio_interface.py) and the receive loop of   *)
(* handle_media_stream (src/main.py): the audio bridge between the Twilio  *)
(* media-stream websocket and the conversational agent.                    *)
(*                                                                         *)
(* Processes:                                                              *)
(*   - the output thread (_output_thread / _send_audio_to_twilio),         *)
(*   - the agent calling output(), interrupt(), start() and stop(),        *)
(*   - the websocket receive loop calling handle_twilio_message().         *)
(* A Python statement that touches shared state is one step; the queue's   *)
(* put/get are atomic (queue.Queue holds a lock), loops over them are not. *)
(***************************************************************************)
EXTENDS Integers, Sequences, FiniteSets, TLC

\* ------------------------------------------------------------------ bounds
MaxOutputs == 2
MaxInterrupts == 1
MaxCallbacks == 2
MaxFailures == 1
MaxStops == 2

\* Python's None (stream_sid, input_callback, output_thread before start()).
None == "None"

\* ------------------------------------------------------------------ base64
\* A str of base64 text is a sequence of character codes: 0..63 are the
\* alphabet characters A-Z a-z 0-9 + / by index, PadChar is '=', and any
\* larger code is a character outside the alphabet (such as '!').
PadChar == 64
JunkChar == 65

\* base64.b64encode(audio).decode("utf-8"): 3 bytes -> 4 characters, '=' padded.
RECURSIVE B64Encode(_)
B64Encode(b) ==
    IF Len(b) = 0 THEN << >>
    ELSE IF Len(b) = 1 THEN
        << b[1] \div 4, (b[1] % 4) * 16, PadChar, PadChar >>
    ELSE IF Len(b) = 2 THEN
        << b[1] \div 4, (b[1] % 4) * 16 + b[2] \div 16, (b[2] % 16) * 4, PadChar >>
    ELSE
        << b[1] \div 4, (b[1] % 4) * 16 + b[2] \div 16,
           (b[2] % 16) * 4 + b[3] \div 64, b[3] % 64 >>
        \o B64Encode(SubSeq(b, 4, Len(b)))

\* base64.b64decode(s) with validate=False (the default): characters outside
\* the alphabet are discarded, a complete pad sequence ends the data, and a
\* dangling quad raises binascii.Error (ok = FALSE).
RECURSIVE A2B(_, _, _, _, _, _)
A2B(s, i, quad, left, pads, out) ==
    IF i > Len(s) THEN
        IF quad # 0 THEN [ok |-> FALSE, out |-> << >>] ELSE [ok |-> TRUE, out |-> out]
    ELSE IF s[i] = PadChar THEN
        IF quad >= 2
        THEN IF quad + pads + 1 >= 4
             THEN [ok |-> TRUE, out |-> out]
             ELSE A2B(s, i + 1, quad, left, pads + 1, out)
        ELSE A2B(s, i + 1, quad, left, pads, out)
    ELSE IF s[i] > 63 THEN A2B(s, i + 1, quad, left, pads, out)
    ELSE IF quad = 0 THEN A2B(s, i + 1, 1, s[i], 0, out)
    ELSE IF quad = 1 THEN
        A2B(s, i + 1, 2, s[i] % 16, 0, Append(out, left * 4 + s[i] \div 16))
    ELSE IF quad = 2 THEN
        A2B(s, i + 1, 3, s[i] % 4, 0, Append(out, left * 16 + s[i] \div 4))
    ELSE
        A2B(s, i + 1, 0, 0, 0, Append(out, left * 64 + s[i]))

\* Mutant of B64Decode: the payload is passed on undecoded.
B64Decode_undecoded(s) == [ok |-> TRUE, out |-> s]

B64Decode(s) == A2B(s, 1, 0, 0, 0, << >>)

\* ------------------------------------------------------------------ inputs
\* Raw audio buffers (bytes) the agent and the caller produce.
AudioBufs == { << 255 >>, << 104, 105 >> }
\* streamSid values Twilio announces.
Sids == { "MZ1", "MZ2" }

\* ------------------------------------------------------ inbound wire messages
\* A websocket text frame: empty text, text json.loads rejects, or JSON text.
\* A JSON object is a record whose DOMAIN is the keys present.
EmptyDict == [k \in {} |-> None]
EmptyText == [text |-> "empty"]
InvalidJson == [text |-> "invalid"]
NonDictJson == [text |-> "json", isdict |-> FALSE]
Json(d) == [text |-> "json", isdict |-> TRUE, data |-> d]

StartMsg(sid) == Json([event |-> "start", start |-> [streamSid |-> sid]])
StartNoSid == Json([event |-> "start", start |-> EmptyDict])
StartNoBody == Json([event |-> "start"])
MediaMsg(payload) == Json([event |-> "media", media |-> [payload |-> payload]])
MediaNoPayload == Json([event |-> "media", media |-> EmptyDict])
MediaNoBody == Json([event |-> "media"])
OtherEvent == Json([event |-> "mark"])
NoEvent == Json(EmptyDict)

\* base64 text with the padding cut off ("aGk" for "aGk=").
UnpaddedPayload(b) == SubSeq(B64Encode(b), 1, Len(B64Encode(b)) - 1)
\* base64 text with a character outside the alphabet appended ("aGk=!").
JunkPayload(b) == Append(B64Encode(b), JunkChar)

ValidMedia == { MediaMsg(B64Encode(b)) : b \in AudioBufs }
ValidStart == { StartMsg(s) : s \in Sids }
BadBase64Media ==
    { MediaMsg(UnpaddedPayload(b)) : b \in AudioBufs }
    \cup { MediaMsg(JunkPayload(b)) : b \in AudioBufs }
    \cup { MediaMsg(<< JunkChar >>) }
MissingFields == { StartNoSid, StartNoBody, MediaNoPayload, MediaNoBody, NoEvent }
InboundMsgs ==
    ValidMedia \cup ValidStart \cup BadBase64Media \cup MissingFields
    \cup { EmptyText, InvalidJson, NonDictJson, OtherEvent }

\* ------------------------------------------------------------------- state
VARIABLES
    output_queue,    \* queue.Queue of audio: ids (positions in enq), head first
    should_stop,     \* threading.Event
    stream_sid,
    input_callback,
    output_thread,
    threadPc,        \* position of _output_thread
    audio,           \* the buffer _send_audio_to_twilio holds (0: none)
    audio_delta,     \* the message it built
    intPc,           \* position of interrupt()
    clear_message,   \* the message _send_clear_message built
    stopPc,          \* position of stop()
    recvLoop,        \* "running", or "crashed" once an error left the loop body
    enq,             \* history: every buffer passed to output(), in call order
    wire,            \* history: every websocket.send_json call, in call order
    cbLog,           \* history: the arguments of every input_callback call
    intr,            \* history: one record per interrupt() call
    discarded,       \* history: ids interrupt() took off the queue
    stopRet,         \* history: what held when stop() first returned
    lastEvent,       \* history: the event tag of the last inbound frame handled
    nStops           \* stop() calls made

vars == << output_queue, should_stop, stream_sid, input_callback, output_thread,
           threadPc, audio, audio_delta, intPc, clear_message, stopPc, recvLoop,
           enq, wire, cbLog, intr, discarded, stopRet, lastEvent, nStops >>

Range(s) == { s[i] : i \in 1..Len(s) }
NoMsg == [streamSid |-> None, payload |-> << >>, built |-> None]

\* TwilioAudioInterface.__init__
Init ==
    /\ output_queue = << >>
    /\ should_stop = FALSE
    /\ stream_sid = None
    /\ input_callback = None
    /\ output_thread = None
    /\ threadPc = "unstarted"
    /\ audio = 0
    /\ audio_delta = NoMsg
    /\ intPc = "idle"
    /\ clear_message = NoMsg
    /\ stopPc = "idle"
    /\ recvLoop = "running"
    /\ enq = << >>
    /\ wire = << >>
    /\ cbLog = << >>
    /\ intr = << >>
    /\ discarded = {}
    /\ stopRet = [returned |-> FALSE, wireLen |-> 0, timedOut |-> FALSE]
    /\ lastEvent = "-"
    /\ nStops = 0

threadVars == << threadPc, audio, audio_delta >>
intVars == << intPc, clear_message, intr, discarded >>
stopVars == << stopPc, stopRet, nStops >>
recvVars == << recvLoop, cbLog, lastEvent >>

\* ------------------------------------------------------ lifecycle: start, stop
\* Mutant of Start: start() clears the event before launching the thread.
Start_resetsFlag ==
    /\ output_thread = None
    /\ input_callback' = "cb"
    /\ output_thread' = "thread"
    /\ threadPc' = "while"
    /\ should_stop' = FALSE
    /\ UNCHANGED << output_queue, stream_sid, audio, audio_delta, enq, wire >>
    /\ UNCHANGED << intVars, stopVars, recvVars >>

\* start(input_callback): called once per bridge instance.
Start ==
    /\ output_thread = None
    /\ input_callback' = "cb"
    /\ output_thread' = "thread"
    /\ threadPc' = "while"
    /\ UNCHANGED << output_queue, should_stop, stream_sid, audio, audio_delta,
                    enq, wire >>
    /\ UNCHANGED << intVars, stopVars, recvVars >>

\* stop(), line 31-32: set the event, then join only if a thread was started.
StopCall ==
    /\ stopPc = "idle"
    /\ nStops < MaxStops
    /\ nStops' = nStops + 1
    /\ should_stop' = TRUE
    /\ stopPc' = IF output_thread # None THEN "join" ELSE "clear"
    /\ UNCHANGED << output_queue, stream_sid, input_callback, output_thread,
                    enq, wire, stopRet >>
    /\ UNCHANGED << threadVars, intVars, recvVars >>

\* join(timeout=5.0) returns because the thread has exited.
StopJoined ==
    /\ stopPc = "join"
    /\ threadPc = "exited"
    /\ stopPc' = "clear"
    /\ UNCHANGED << output_queue, should_stop, stream_sid, input_callback,
                    output_thread, enq, wire, stopRet, nStops >>
    /\ UNCHANGED << threadVars, intVars, recvVars >>

\* join(timeout=5.0) times out. The dequeue waits at most 0.2 s, so the only
\* place the thread can outlast 5 s is the transport send, which suspends for
\* as long as the connection exerts backpressure.
StopJoinTimeout ==
    /\ stopPc = "join"
    /\ threadPc = "send"
    /\ stopPc' = "clear"
    /\ stopRet' = IF stopRet.returned THEN stopRet
                  ELSE [stopRet EXCEPT !.timedOut = TRUE]
    /\ UNCHANGED << output_queue, should_stop, stream_sid, input_callback,
                    output_thread, enq, wire, nStops >>
    /\ UNCHANGED << threadVars, intVars, recvVars >>

\* stop(), line 34, and the return.
StopClear ==
    /\ stopPc = "clear"
    /\ stream_sid' = None
    /\ stopPc' = "idle"
    /\ stopRet' = IF stopRet.returned THEN stopRet
                  ELSE [stopRet EXCEPT !.returned = TRUE, !.wireLen = Len(wire)]
    /\ UNCHANGED << output_queue, should_stop, input_callback, output_thread,
                    enq, wire, nStops >>
    /\ UNCHANGED << threadVars, intVars, recvVars >>

\* ---------------------------------------------------------------- output
\* Mutant of Output: the buffer is put at the head of the queue.
Output_front(b) ==
    /\ Len(enq) < MaxOutputs
    /\ enq' = Append(enq, b)
    /\ output_queue' = << Len(enq) + 1 >> \o output_queue
    /\ UNCHANGED << should_stop, stream_sid, input_callback, output_thread, wire >>
    /\ UNCHANGED << threadVars, intVars, stopVars, recvVars >>

\* output(audio): self.output_queue.put(audio) on an unbounded queue.
Output(b) ==
    /\ Len(enq) < MaxOutputs
    /\ enq' = Append(enq, b)
    /\ output_queue' = Append(output_queue, Len(enq) + 1)
    /\ UNCHANGED << should_stop, stream_sid, input_callback, output_thread, wire >>
    /\ UNCHANGED << threadVars, intVars, stopVars, recvVars >>

\* ------------------------------------------------------- the output thread
\* Mutant of ThreadWhile: the loop never looks at should_stop.
ThreadWhile_ignoresStop ==
    /\ threadPc = "while"
    /\ threadPc' = "get"
    /\ UNCHANGED << output_queue, should_stop, stream_sid, input_callback,
                    output_thread, audio, audio_delta, enq, wire >>
    /\ UNCHANGED << intVars, stopVars, recvVars >>

\* _output_thread, line 65: while not self.should_stop.is_set()
ThreadWhile ==
    /\ threadPc = "while"
    /\ threadPc' = IF should_stop THEN "exited" ELSE "get"
    /\ UNCHANGED << output_queue, should_stop, stream_sid, input_callback,
                    output_thread, audio, audio_delta, enq, wire >>
    /\ UNCHANGED << intVars, stopVars, recvVars >>

\* Mutant of ThreadGet: the head is read but left on the queue.
ThreadGet_peek ==
    /\ threadPc = "get"
    /\ output_queue # << >>
    /\ audio' = Head(output_queue)
    /\ threadPc' = "build"
    /\ UNCHANGED << output_queue, should_stop, stream_sid, input_callback,
                    output_thread, audio_delta, enq, wire >>
    /\ UNCHANGED << intVars, stopVars, recvVars >>

\* line 71: output_queue.get(timeout=0.2) returns the head.
ThreadGet ==
    /\ threadPc = "get"
    /\ output_queue # << >>
    /\ audio' = Head(output_queue)
    /\ output_queue' = Tail(output_queue)
    /\ threadPc' = "build"
    /\ UNCHANGED << should_stop, stream_sid, input_callback, output_thread,
                    audio_delta, enq, wire >>
    /\ UNCHANGED << intVars, stopVars, recvVars >>

\* Mutant of ThreadGetEmpty: get() without a timeout never gives up.
ThreadGetEmpty_blocks ==
    /\ FALSE
    /\ UNCHANGED vars

\* line 71, 79-80: the wait ends with queue.Empty; back to the while test.
ThreadGetEmpty ==
    /\ threadPc = "get"
    /\ output_queue = << >>
    /\ threadPc' = "while"
    /\ UNCHANGED << output_queue, should_stop, stream_sid, input_callback,
                    output_thread, audio, audio_delta, enq, wire >>
    /\ UNCHANGED << intVars, stopVars, recvVars >>

\* Mutant of ThreadBuild: the message is built without the stream id.
ThreadBuild_untagged ==
    /\ threadPc = "build"
    /\ audio_delta' = [streamSid |-> None,
                       payload |-> B64Encode(enq[audio]),
                       built |-> stream_sid]
    /\ threadPc' = "send"
    /\ UNCHANGED << output_queue, should_stop, stream_sid, input_callback,
                    output_thread, audio, enq, wire >>
    /\ UNCHANGED << intVars, stopVars, recvVars >>

\* lines 72-77: encode, and read self.stream_sid into the message.
ThreadBuild ==
    /\ threadPc = "build"
    /\ audio_delta' = [streamSid |-> stream_sid,
                       payload |-> B64Encode(enq[audio]),
                       built |-> stream_sid]
    /\ threadPc' = "send"
    /\ UNCHANGED << output_queue, should_stop, stream_sid, input_callback,
                    output_thread, audio, enq, wire >>
    /\ UNCHANGED << intVars, stopVars, recvVars >>

\* send_json calls that raised so far.
Failures == Cardinality({ i \in 1..Len(wire) : ~wire[i].ok })

MediaEntry(ok) ==
    [event |-> "media", streamSid |-> audio_delta.streamSid,
     payload |-> audio_delta.payload, ok |-> ok, id |-> audio,
     built |-> audio_delta.built]

\* line 78: await self.websocket.send_json(audio_delta) completes.
ThreadSendOk ==
    /\ threadPc = "send"
    /\ wire' = Append(wire, MediaEntry(TRUE))
    /\ audio' = 0
    /\ audio_delta' = NoMsg
    /\ threadPc' = "while"
    /\ UNCHANGED << output_queue, should_stop, stream_sid, input_callback,
                    output_thread, enq >>
    /\ UNCHANGED << intVars, stopVars, recvVars >>

\* Mutant of ThreadSendFail: the exception is not caught and ends the thread.
ThreadSendFail_terminates ==
    /\ threadPc = "send"
    /\ Failures < MaxFailures
    /\ wire' = Append(wire, MediaEntry(FALSE))
    /\ audio' = 0
    /\ audio_delta' = NoMsg
    /\ threadPc' = "exited"
    /\ UNCHANGED << output_queue, should_stop, stream_sid, input_callback,
                    output_thread, enq >>
    /\ UNCHANGED << intVars, stopVars, recvVars >>

\* lines 78, 81-82: send_json raises; logged, the coroutine returns.
ThreadSendFail ==
    /\ threadPc = "send"
    /\ Failures < MaxFailures
    /\ wire' = Append(wire, MediaEntry(FALSE))
    /\ audio' = 0
    /\ audio_delta' = NoMsg
    /\ threadPc' = "while"
    /\ UNCHANGED << output_queue, should_stop, stream_sid, input_callback,
                    output_thread, enq >>
    /\ UNCHANGED << intVars, stopVars, recvVars >>

\* -------------------------------------------------------------- interrupt
\* interrupt() is entered; the history records what the queue held.
InterruptCall ==
    /\ intPc = "idle"
    /\ Len(intr) < MaxInterrupts
    /\ intPc' = "drain"
    /\ intr' = Append(intr, [snap |-> Range(output_queue), enqAtCall |-> Len(enq),
                             clearAt |-> 0, enqAtRet |-> 0, returned |-> FALSE])
    /\ UNCHANGED << output_queue, should_stop, stream_sid, input_callback,
                    output_thread, clear_message, discarded, enq, wire >>
    /\ UNCHANGED << threadVars, stopVars, recvVars >>

\* Mutant of InterruptDrain: an `if` for the `while`, one buffer is taken.
InterruptDrain_once ==
    /\ intPc = "drain"
    /\ output_queue # << >>
    /\ discarded' = discarded \cup { Head(output_queue) }
    /\ output_queue' = Tail(output_queue)
    /\ intPc' = "clear"
    /\ UNCHANGED << should_stop, stream_sid, input_callback, output_thread,
                    clear_message, intr, enq, wire >>
    /\ UNCHANGED << threadVars, stopVars, recvVars >>

\* lines 43-44: one output_queue.get(block=False) that returns a buffer.
InterruptDrain ==
    /\ intPc = "drain"
    /\ output_queue # << >>
    /\ discarded' = discarded \cup { Head(output_queue) }
    /\ output_queue' = Tail(output_queue)
    /\ UNCHANGED << should_stop, stream_sid, input_callback, output_thread,
                    intPc, clear_message, intr, enq, wire >>
    /\ UNCHANGED << threadVars, stopVars, recvVars >>

\* Mutant of InterruptEmpty: the clear is scheduled, not awaited; interrupt()
\* returns as soon as the drain is over.
InterruptEmpty_detached ==
    /\ intPc = "drain"
    /\ output_queue = << >>
    /\ intPc' = "clear"
    /\ intr' = [intr EXCEPT ![Len(intr)] =
                   [@ EXCEPT !.enqAtRet = Len(enq), !.returned = TRUE]]
    /\ UNCHANGED << output_queue, should_stop, stream_sid, input_callback,
                    output_thread, clear_message, discarded, enq, wire >>
    /\ UNCHANGED << threadVars, stopVars, recvVars >>

\* Mutant of InterruptEmpty: a blocking get() waits for the next buffer
\* and never raises queue.Empty.
InterruptEmpty_blocks ==
    /\ FALSE
    /\ UNCHANGED vars

\* Mutant of InterruptEmpty: no clear when the queue was empty at the call.
InterruptEmpty_skipClear ==
    /\ intPc = "drain"
    /\ output_queue = << >>
    /\ intPc' = IF intr[Len(intr)].snap = {} THEN "idle" ELSE "clear"
    /\ intr' = IF intr[Len(intr)].snap = {}
               THEN [intr EXCEPT ![Len(intr)] =
                        [@ EXCEPT !.enqAtRet = Len(enq), !.returned = TRUE]]
               ELSE intr
    /\ UNCHANGED << output_queue, should_stop, stream_sid, input_callback,
                    output_thread, clear_message, discarded, enq, wire >>
    /\ UNCHANGED << threadVars, stopVars, recvVars >>

\* lines 44-46: get(block=False) raises queue.Empty; the drain is over.
InterruptEmpty ==
    /\ intPc = "drain"
    /\ output_queue = << >>
    /\ intPc' = "clear"
    /\ UNCHANGED << output_queue, should_stop, stream_sid, input_callback,
                    output_thread, clear_message, intr, discarded, enq, wire >>
    /\ UNCHANGED << threadVars, stopVars, recvVars >>

\* line 87: clear_message reads self.stream_sid.
ClearBuild ==
    /\ intPc = "clear"
    /\ clear_message' = [streamSid |-> stream_sid, payload |-> << >>,
                         built |-> stream_sid]
    /\ intPc' = "send"
    /\ UNCHANGED << output_queue, should_stop, stream_sid, input_callback,
                    output_thread, intr, discarded, enq, wire >>
    /\ UNCHANGED << threadVars, stopVars, recvVars >>

ClearEntry(ok) ==
    [event |-> "clear", streamSid |-> clear_message.streamSid,
     payload |-> << >>, ok |-> ok, id |-> 0, built |-> clear_message.built]

\* interrupt() returns: the history notes where its clear send sits in wire.
InterruptReturn(w) ==
    [intr EXCEPT ![Len(intr)] =
        [@ EXCEPT !.clearAt = Len(w),
                  !.enqAtRet = IF intr[Len(intr)].returned THEN @ ELSE Len(enq),
                  !.returned = TRUE]]

\* line 88: send_json(clear_message) completes; interrupt() returns.
ClearSendOk ==
    /\ intPc = "send"
    /\ wire' = Append(wire, ClearEntry(TRUE))
    /\ intr' = InterruptReturn(wire')
    /\ clear_message' = NoMsg
    /\ intPc' = "idle"
    /\ UNCHANGED << output_queue, should_stop, stream_sid, input_callback,
                    output_thread, discarded, enq >>
    /\ UNCHANGED << threadVars, stopVars, recvVars >>

\* Mutant of ClearSendFail: the exception leaves interrupt() uncaught.
ClearSendFail_propagates ==
    /\ intPc = "send"
    /\ Failures < MaxFailures
    /\ wire' = Append(wire, ClearEntry(FALSE))
    /\ clear_message' = NoMsg
    /\ intPc' = "raised"
    /\ UNCHANGED << output_queue, should_stop, stream_sid, input_callback,
                    output_thread, intr, discarded, enq >>
    /\ UNCHANGED << threadVars, stopVars, recvVars >>

\* lines 88-90: send_json raises; logged; interrupt() returns.
ClearSendFail ==
    /\ intPc = "send"
    /\ Failures < MaxFailures
    /\ wire' = Append(wire, ClearEntry(FALSE))
    /\ intr' = InterruptReturn(wire')
    /\ clear_message' = NoMsg
    /\ intPc' = "idle"
    /\ UNCHANGED << output_queue, should_stop, stream_sid, input_callback,
                    output_thread, discarded, enq >>
    /\ UNCHANGED << threadVars, stopVars, recvVars >>

\* ------------------------------------------------------------ inbound path
\* dict.get(key): the value, or None when the key is absent.
Get(d, k) == IF k \in DOMAIN d THEN d[k] ELSE None

Outcome(exc, sid, calls) == [exc |-> exc, sid |-> sid, calls |-> calls]

\* Mutant of HandleBody: an event that is neither "start" nor "media" is
\* taken for the end of the stream and the stream id is forgotten.
HandleBody_unknownEndsStream(m, sid, cb) ==
    IF ~m.isdict THEN Outcome("AttributeError", sid, << >>)
    ELSE IF Get(m.data, "event") = "start" THEN
        IF "start" \notin DOMAIN m.data
        THEN Outcome("KeyError", sid, << >>)
        ELSE Outcome(None, Get(m.data.start, "streamSid"), << >>)
    ELSE IF Get(m.data, "event") = "media" THEN
        IF "media" \notin DOMAIN m.data THEN Outcome("KeyError", sid, << >>)
        ELSE IF "payload" \notin DOMAIN m.data.media
        THEN Outcome("KeyError", sid, << >>)
        ELSE IF ~B64Decode(m.data.media.payload).ok
        THEN Outcome("binascii.Error", sid, << >>)
        ELSE Outcome(None, sid,
                     IF cb # None THEN << B64Decode(m.data.media.payload).out >>
                     ELSE << >>)
    ELSE Outcome(None, None, << >>)

\* handle_twilio_message, lines 52-59: the body of the try. exc is the
\* exception the body raises (None: it completes), sid the stream id it leaves,
\* calls the arguments it passes to input_callback.
HandleBody(m, sid, cb) ==
    IF ~m.isdict THEN Outcome("AttributeError", sid, << >>)
    ELSE IF Get(m.data, "event") = "start" THEN
        IF "start" \notin DOMAIN m.data
        THEN Outcome("KeyError", sid, << >>)
        ELSE Outcome(None, Get(m.data.start, "streamSid"), << >>)
    ELSE IF Get(m.data, "event") = "media" THEN
        IF "media" \notin DOMAIN m.data THEN Outcome("KeyError", sid, << >>)
        ELSE IF "payload" \notin DOMAIN m.data.media
        THEN Outcome("KeyError", sid, << >>)
        ELSE IF ~B64Decode(m.data.media.payload).ok
        THEN Outcome("binascii.Error", sid, << >>)
        ELSE Outcome(None, sid,
                     IF cb # None THEN << B64Decode(m.data.media.payload).out >>
                     ELSE << >>)
    ELSE Outcome(None, sid, << >>)

\* Mutant of handle_twilio_message: the except clause also forgets the
\* stream id.
handle_twilio_message_resetOnError(m, sid, cb) ==
    IF HandleBody(m, sid, cb).exc = None THEN HandleBody(m, sid, cb)
    ELSE Outcome(None, None, << >>)

\* handle_twilio_message, lines 51, 60-61: except Exception logs and returns.
handle_twilio_message(m, sid, cb) ==
    [HandleBody(m, sid, cb) EXCEPT !.exc = None]

\* handle_media_stream, lines 151-161: one frame of the receive loop. Empty
\* text is skipped, JSONDecodeError and any other exception are logged.
LoopBody(m, sid, cb) ==
    IF m.text = "empty" THEN Outcome(None, sid, << >>)
    ELSE IF m.text = "invalid" THEN Outcome(None, sid, << >>)
    ELSE [handle_twilio_message(m, sid, cb) EXCEPT !.exc = None]

\* What the frame is, for the history: its event tag when it is a JSON object.
EventTag(m) ==
    IF m.text # "json" THEN m.text
    ELSE IF ~m.isdict THEN "nondict"
    ELSE Get(m.data, "event")

\* handle_media_stream, line 150: the next frame of websocket.iter_text().
ReceiveMessage(m) ==
    /\ recvLoop = "running"
    /\ Len(cbLog) + Len(LoopBody(m, stream_sid, input_callback).calls) <= MaxCallbacks
    /\ stream_sid' = LoopBody(m, stream_sid, input_callback).sid
    /\ cbLog' = cbLog \o LoopBody(m, stream_sid, input_callback).calls
    /\ recvLoop' = IF LoopBody(m, stream_sid, input_callback).exc = None
                   THEN "running" ELSE "crashed"
    /\ lastEvent' = EventTag(m)
    /\ UNCHANGED << output_queue, should_stop, input_callback, output_thread,
                    enq, wire >>
    /\ UNCHANGED << threadVars, intVars, stopVars >>

\* ------------------------------------------------------------ specification
Next ==
    \/ Start
    \/ StopCall
    \/ StopJoined
    \/ StopJoinTimeout
    \/ StopClear
    \/ \E b \in AudioBufs : Output(b)
    \/ ThreadWhile
    \/ ThreadGet
    \/ ThreadGetEmpty
    \/ ThreadBuild
    \/ ThreadSendOk
    \/ ThreadSendFail
    \/ InterruptCall
    \/ InterruptDrain
    \/ InterruptEmpty
    \/ ClearBuild
    \/ ClearSendOk
    \/ ClearSendFail
    \/ \E m \in InboundMsgs : ReceiveMessage(m)

Spec == Init /\ [][Next]_vars

\* The three specifications below are the parts of Spec that share no state
\* beyond what they name; the claims are checked on them.

\* The thread is scheduled: each of its statements completes. The dequeue ends
\* within its 0.2 s wait, with a buffer or with queue.Empty; the send is
\* assumed to complete, by returning or by raising.
ThreadFairness ==
    /\ WF_vars(ThreadWhile)
    /\ WF_vars(ThreadGet \/ ThreadGetEmpty)
    /\ WF_vars(ThreadBuild)
    /\ WF_vars(ThreadSendOk \/ ThreadSendFail)

\* The outbound side: output(), the output thread and interrupt(), after
\* start(). The bridge never looks inside a buffer except to encode it, so the
\* agent's audio is taken to alternate between the two buffers (neighbours in
\* the queue always differ). Twilio announces one stream per connection.
NextAudio == IF Len(enq) % 2 = 0 THEN << 255 >> ELSE << 104, 105 >>
NextOutbound ==
    \/ Start
    \/ Output(NextAudio)
    \/ ThreadWhile
    \/ ThreadGet
    \/ ThreadGetEmpty
    \/ ThreadBuild
    \/ ThreadSendOk
    \/ ThreadSendFail
    \/ InterruptCall
    \/ InterruptDrain
    \/ InterruptEmpty
    \/ ClearBuild
    \/ ClearSendOk
    \/ ClearSendFail
    \/ ReceiveMessage(StartMsg("MZ1"))

SpecOutbound == Init /\ [][NextOutbound]_vars

\* Delivery on its own: one stream, any audio from the agent and the scheduled
\* output thread; no interrupt() and no stop().
NextDelivery ==
    \/ Start
    \/ \E b \in AudioBufs : Output(b)
    \/ ThreadWhile
    \/ ThreadGet
    \/ ThreadGetEmpty
    \/ ThreadBuild
    \/ ThreadSendOk
    \/ ThreadSendFail
    \/ ReceiveMessage(StartMsg("MZ1"))

SpecDeliveryFair == Init /\ [][NextDelivery]_vars /\ ThreadFairness

\* interrupt() runs on its caller's thread, which is scheduled: the
\* non-blocking get returns or raises at once, and the send of the clear
\* message is assumed to complete, by returning or by raising.
InterruptFairness ==
    /\ WF_vars(InterruptDrain \/ InterruptEmpty)
    /\ WF_vars(ClearBuild)
    /\ WF_vars(ClearSendOk \/ ClearSendFail)

\* interrupt() against output() and the output thread, all three working on
\* the queue; the stream id and media send failures play no part in the drain.
NextInterrupt ==
    \/ Start
    \/ Output(NextAudio)
    \/ ThreadWhile
    \/ ThreadGet
    \/ ThreadGetEmpty
    \/ ThreadBuild
    \/ ThreadSendOk
    \/ InterruptCall
    \/ InterruptDrain
    \/ InterruptEmpty
    \/ ClearBuild
    \/ ClearSendOk
    \/ ClearSendFail

SpecInterruptFair ==
    Init /\ [][NextInterrupt]_vars /\ ThreadFairness /\ InterruptFairness

\* The lifecycle: start(), stop() and the output thread, with any audio and
\* any "start" frame (the only frames that write stream_sid).
StartFrames == ValidStart \cup { StartNoSid }
NextLifecycle ==
    \/ Start
    \/ StopCall
    \/ StopJoined
    \/ StopJoinTimeout
    \/ StopClear
    \/ \E b \in AudioBufs : Output(b)
    \/ ThreadWhile
    \/ ThreadGet
    \/ ThreadGetEmpty
    \/ ThreadBuild
    \/ ThreadSendOk
    \/ ThreadSendFail
    \/ \E m \in StartFrames : ReceiveMessage(m)

SpecLifecycle == Init /\ [][NextLifecycle]_vars

SpecLifecycleFair == SpecLifecycle /\ ThreadFairness

\* The whole session around the lifecycle flag: start(), stop() (repeated),
\* output(), interrupt() and inbound media, with the output thread polling.
NextSession ==
    \/ Start
    \/ StopCall
    \/ StopJoined
    \/ StopClear
    \/ Output(NextAudio)
    \/ ThreadWhile
    \/ ThreadGetEmpty
    \/ InterruptCall
    \/ InterruptDrain
    \/ InterruptEmpty
    \/ ClearBuild
    \/ ClearSendOk
    \/ \E m \in ValidMedia : ReceiveMessage(m)

SpecSession == Init /\ [][NextSession]_vars

\* The inbound side: the receive loop, with start() and stop() around it.
NextInbound ==
    \/ Start
    \/ StopCall
    \/ StopJoined
    \/ StopClear
    \/ ThreadWhile
    \/ ThreadGetEmpty
    \/ \E m \in InboundMsgs : ReceiveMessage(m)

SpecInbound == Init /\ [][NextInbound]_vars

\* ------------------------------------------------------------------ claims
IsMedia(i) == wire[i].event = "media"
IsClear(i) == wire[i].event = "clear"
\* media messages the transport received, in send order
SentMedia == SelectSeq(wire, LAMBDA e : e.event = "media" /\ e.ok)

\* C1: buffers passed to output() with no interrupt() and no send failure are
\* sent as media messages in enqueue order, none skipped, each carrying its
\* buffer and the stream id the session held when the message was built; and
\* in any run the media sends never go back in enqueue order.
C1_FifoDelivery ==
    /\ \A i, j \in 1..Len(wire) :
          (i < j /\ IsMedia(i) /\ IsMedia(j)) => wire[i].id < wire[j].id
    /\ (intr = << >> /\ Failures = 0) =>
          \A k \in 1..Len(SentMedia) :
              /\ SentMedia[k].id = k
              /\ B64Decode(SentMedia[k].payload) = [ok |-> TRUE, out |-> enq[k]]
              /\ SentMedia[k].streamSid = SentMedia[k].built

C1_Witness ==
    /\ intr = << >>
    /\ Failures = 0
    /\ Len(SentMedia) = 2
    /\ SentMedia[1].payload # SentMedia[2].payload
    /\ SentMedia[2].streamSid = "MZ1"

\* C2: no message the transport receives is tagged with an absent stream id:
\* while stream_sid is unset neither the output thread nor interrupt() sends.
C2_NeverUntagged ==
    \A i \in 1..Len(wire) : wire[i].ok => wire[i].streamSid # None

\* C3: no buffer that was in the queue when interrupt() was invoked is sent as
\* a media message after that interrupt's clear message.
C3_AtomicFlush ==
    \A k \in 1..Len(intr) : \A i \in 1..Len(wire) :
        (intr[k].returned /\ i > intr[k].clearAt /\ IsMedia(i) /\ wire[i].ok)
            => wire[i].id \notin intr[k].snap

\* C4 as stated: no buffer enqueued after interrupt() was invoked is sent
\* before that call's clear message.
C4_ClearBeforeLaterAudio ==
    \A k \in 1..Len(intr) : \A i \in 1..Len(wire) :
        (IsMedia(i) /\ wire[i].ok /\ wire[i].id > intr[k].enqAtCall)
            => (intr[k].returned /\ intr[k].clearAt < i)

\* C4: no buffer enqueued after interrupt() has returned goes to the transport
\* before that call's clear message does.
C4_ClearBeforeAudioAfterReturn ==
    \A k \in 1..Len(intr) : \A i \in 1..Len(wire) :
        (intr[k].returned /\ IsMedia(i) /\ wire[i].id > intr[k].enqAtRet)
            => (intr[k].clearAt > 0 /\ intr[k].clearAt < i)

C4_Witness ==
    \E k \in 1..Len(intr) : \E i \in 1..Len(wire) :
        /\ intr[k].returned
        /\ IsMedia(i) /\ wire[i].ok
        /\ wire[i].id > intr[k].enqAtRet
        /\ wire[intr[k].clearAt].ok

\* C5: once interrupt() has returned, the queue holds none of the buffers it
\* held when interrupt() was called.
C5_DrainedAtReturn ==
    \A k \in 1..Len(intr) :
        intr[k].returned => intr[k].snap \cap Range(output_queue) = {}

C5_Witness ==
    \E k \in 1..Len(intr) :
        /\ intr[k].returned
        /\ intr[k].snap # {}
        /\ output_queue # << >>
        /\ threadPc = "get"

ClearsSent == { i \in 1..Len(wire) : IsClear(i) /\ wire[i].ok }
ClearAttempts == { i \in 1..Len(wire) : IsClear(i) }
Returned == { k \in 1..Len(intr) : intr[k].returned }

\* C6 as stated: the number of clear messages sent equals the number of
\* completed interrupt() calls.
C6_OneClearPerCall == Cardinality(ClearsSent) = Cardinality(Returned)

\* C6: every completed interrupt() call made exactly one clear send, tagged
\* with the stream id held when the message was built, whether or not the
\* queue was empty; the transport received it unless that send failed.
C6_OneClearAttemptPerCall ==
    /\ Cardinality(ClearAttempts) = Cardinality(Returned)
    /\ ClearAttempts = { intr[k].clearAt : k \in Returned }
    /\ \A k \in Returned : wire[intr[k].clearAt].streamSid = wire[intr[k].clearAt].built
    /\ Cardinality(ClearsSent)
         = Cardinality(Returned)
             - Cardinality({ i \in ClearAttempts : ~wire[i].ok })

C6_Witness ==
    \E k \in Returned :
        /\ intr[k].snap = {}
        /\ wire[intr[k].clearAt].ok
        /\ wire[intr[k].clearAt].streamSid = "MZ1"

MediaAfterStop == { i \in 1..Len(wire) : i > stopRet.wireLen /\ IsMedia(i) }

\* C7 as stated: after stop() has returned no media message is sent.
C7_NoSendAfterStop == stopRet.returned => MediaAfterStop = {}

\* C7: after stop() has returned with the join having seen the thread exit
\* (or with no thread started), no media send follows; if the join timed out
\* on a thread stalled in a send, at most that one media send follows.
C7_AtMostInFlightAfterStop ==
    stopRet.returned =>
        /\ Cardinality(MediaAfterStop) <= 1
        /\ ~stopRet.timedOut => MediaAfterStop = {}

C7_Witness ==
    /\ stopRet.returned
    /\ stopRet.timedOut
    /\ Cardinality(MediaAfterStop) = 1
    /\ threadPc = "exited"
    /\ output_queue # << >>

\* C10: a failed media send drops that one frame: the thread goes on (it
\* exits only once should_stop is set), no buffer is sent twice, sends keep
\* enqueue order, and every other buffer is still queued, held or sent.
C10_FailureDropsOneFrame ==
    /\ threadPc = "exited" => should_stop
    /\ \A i, j \in 1..Len(wire) :
          (i < j /\ IsMedia(i) /\ IsMedia(j)) => wire[i].id < wire[j].id
    /\ \A id \in 1..Len(enq) :
          Cardinality({ i \in 1..Len(output_queue) : output_queue[i] = id })
            + Cardinality({ i \in 1..Len(wire) : IsMedia(i) /\ wire[i].id = id })
            + (IF audio = id THEN 1 ELSE 0)
            + (IF id \in discarded THEN 1 ELSE 0) = 1

C10_Witness ==
    \E i, j \in 1..Len(wire) :
        /\ i < j
        /\ IsMedia(i) /\ ~wire[i].ok
        /\ IsMedia(j) /\ wire[j].ok
        /\ ~should_stop

\* ------------------------------------------------------- claims, inbound
\* Frames the decoder is to reject: text that is no JSON object, an event
\* lacking a field it needs, a payload that is not base64 text.
MalformedMsgs == { InvalidJson, NonDictJson } \cup MissingFields \cup BadBase64Media

\* C8: a malformed frame invokes no callback and lets no error out of the
\* receive loop, and a valid frame is processed whatever came before it: a
\* start frame sets the stream id, a media frame reaches the callback.
C8_MalformedSkipped ==
    [][ /\ \A m \in MalformedMsgs :
              ReceiveMessage(m) => (cbLog' = cbLog /\ recvLoop' = "running")
        /\ \A sid \in Sids : ReceiveMessage(StartMsg(sid)) => stream_sid' = sid
        /\ \A b \in AudioBufs :
              (ReceiveMessage(MediaMsg(B64Encode(b))) /\ input_callback # None)
                  => cbLog' = Append(cbLog, b) ]_vars

\* C9: with the callback registered, every valid media frame makes exactly one
\* callback call with the decoded payload, appended in arrival order; start()
\* registers the callback for good.
C9_CallbackPerMedia ==
    /\ [](output_thread # None => input_callback = "cb")
    /\ [][ \A b \in AudioBufs :
              (input_callback # None /\ ReceiveMessage(MediaMsg(B64Encode(b))))
                  => cbLog' = Append(cbLog, b) ]_vars

C9_Witness ==
    /\ Len(cbLog) = 2
    /\ cbLog[1] = << 104, 105 >>
    /\ cbLog[2] = << 255 >>
    /\ recvLoop = "running"

\* ------------------------------------------------- claims, second part
FailedClears == { i \in ClearAttempts : ~wire[i].ok }

\* C11: a failed clear send stays inside interrupt(): the call returns
\* normally with the queue drained of what it held at the call, interrupt()
\* is never left by an exception, and the output thread is not ended by it.
C11_ClearFailureContained ==
    /\ intPc \in { "idle", "drain", "clear", "send" }
    /\ \A i \in FailedClears :
          \E k \in Returned :
              /\ intr[k].clearAt = i
              /\ intr[k].snap \cap Range(output_queue) = {}
    /\ threadPc # "exited"

\* a clear send failed, and audio enqueued after that call was still sent
C11_Witness ==
    \E i \in FailedClears : \E j \in 1..Len(wire) : \E k \in Returned :
        /\ intr[k].clearAt = i
        /\ intr[k].snap # {}
        /\ j > i /\ IsMedia(j) /\ wire[j].ok
        /\ wire[j].id > intr[k].enqAtRet
        /\ intPc = "idle"

QueuedIds == Range(output_queue)
InFlightIds == IF audio = 0 THEN {} ELSE { audio }
SentIds == { wire[i].id : i \in { j \in 1..Len(wire) : IsMedia(j) /\ wire[j].ok } }
DroppedIds == { wire[i].id : i \in { j \in 1..Len(wire) : IsMedia(j) /\ ~wire[j].ok } }

\* C18: every media message carries a buffer that was passed to output(), no
\* buffer is sent twice or queued twice, and each buffer passed to output() is
\* in exactly one of: queued, in flight, sent, dropped by a failed send,
\* discarded by an interrupt.
C18_BufferConservation ==
    /\ \A i \in 1..Len(wire) : IsMedia(i) =>
          /\ wire[i].id \in 1..Len(enq)
          /\ B64Decode(wire[i].payload) = [ok |-> TRUE, out |-> enq[wire[i].id]]
    /\ \A i, j \in 1..Len(wire) :
          (IsMedia(i) /\ IsMedia(j) /\ wire[i].id = wire[j].id) => i = j
    /\ \A i, j \in 1..Len(output_queue) :
          output_queue[i] = output_queue[j] => i = j
    /\ QueuedIds \cup InFlightIds \cup SentIds \cup DroppedIds \cup discarded
          = 1..Len(enq)
    /\ Cardinality(QueuedIds) + Cardinality(InFlightIds) + Cardinality(SentIds)
          + Cardinality(DroppedIds) + Cardinality(discarded) = Len(enq)

C18_Witness ==
    /\ discarded # {}
    /\ SentIds # {}
    /\ Len(enq) = MaxOutputs
    /\ intPc = "idle"
    /\ threadPc = "get"

\* C12: the output thread exits only once should_stop is set, and once it is
\* set a started thread does exit, whatever the queue holds.
C12_RunsUntilStopped ==
    /\ [](threadPc = "exited" => should_stop)
    /\ (should_stop /\ output_thread # None) ~> (threadPc = "exited")

C12_Witness ==
    /\ should_stop
    /\ threadPc = "exited"
    /\ output_queue # << >>
    /\ stopRet.returned

SentTagged(i, sid) ==
    \E j \in 1..Len(wire) :
        IsMedia(j) /\ wire[j].ok /\ wire[j].id = i /\ wire[j].streamSid = sid

\* C13 as stated: once the start event of stream MZ1 has been handled, every
\* queued buffer is eventually sent as a media message tagged MZ1 (no
\* interrupt(), no stop(), no other start event).
C13_EveryBufferSentTagged ==
    \A i \in 1..MaxOutputs :
        (i \in QueuedIds /\ stream_sid = "MZ1") ~> SentTagged(i, "MZ1")

\* C13, amended: once the start event of stream MZ1 has been handled and
\* start() has launched the output thread, every queued buffer is eventually
\* sent as a media message tagged MZ1, or its send fails and it is dropped
\* (no interrupt(), no stop(), no other start event).
C13_SentTaggedUnlessSendFails ==
    \A i \in 1..MaxOutputs :
        (i \in QueuedIds /\ stream_sid = "MZ1" /\ output_thread # None)
            ~> (SentTagged(i, "MZ1") \/ i \in DroppedIds)

C13_Witness ==
    /\ stream_sid = "MZ1"
    /\ intr = << >>
    /\ Len(enq) = MaxOutputs
    /\ DroppedIds # {}
    /\ \E i \in 1..Len(enq) : SentTagged(i, "MZ1") /\ i > 1
    /\ \A i \in 1..Len(enq) : SentTagged(i, "MZ1") \/ i \in DroppedIds

\* C17: interrupt() returns: its drain ends when the queue reports empty,
\* whatever output() enqueues meanwhile (finitely many buffers).
C17_InterruptReturns ==
    \A k \in 1..MaxInterrupts :
        (Len(intr) = k /\ intPc = "drain")
            ~> (Len(intr) >= k /\ intr[k].returned)

C17_Witness ==
    \E k \in Returned :
        /\ intr[k].enqAtRet > intr[k].enqAtCall
        /\ intr[k].snap # {}
        /\ Len(enq) = MaxOutputs

\* C14: once set, should_stop stays set, across further stop() calls and
\* across start(), output(), interrupt() and inbound messages; it changes
\* only in a call of stop().
C14_FlagNeverReset ==
    [][/\ should_stop => should_stop'
       /\ should_stop' # should_stop => nStops' = nStops + 1]_vars

C14_Witness ==
    /\ should_stop
    /\ nStops = MaxStops
    /\ stopPc = "idle"
    /\ stopRet.returned
    /\ Len(wire) > stopRet.wireLen
    /\ output_thread # None
    /\ output_queue # << >>
    /\ lastEvent = "media"

UnknownEvents == { OtherEvent, NoEvent }

\* C15: a frame whose event is neither "start" nor "media" (or is missing)
\* changes nothing: stream id, queue and flag stay as they are, the callback
\* is not called, nothing is sent, and the receive loop goes on.
C15_UnknownEventIgnored ==
    [][(\E m \in UnknownEvents : ReceiveMessage(m))
          => /\ UNCHANGED << stream_sid, output_queue, should_stop, cbLog,
                             wire, enq >>
             /\ recvLoop' = "running"]_vars

C15_Witness ==
    /\ lastEvent = "mark"
    /\ stream_sid \in Sids
    /\ cbLog # << >>
    /\ recvLoop = "running"
    /\ ~should_stop

\* C16 as stated: once a start event has stored a stream id, no inbound
\* frame changes it.
C16_WrittenOnce ==
    [][(stream_sid \in Sids /\ \E m \in InboundMsgs : ReceiveMessage(m))
          => stream_sid' = stream_sid]_vars

\* C16, amended: only start events write the stream id. A start event with
\* a "start" object stores that object's streamSid, None when it has none,
\* over whatever was stored; every other frame leaves the stream id alone.
C16_OnlyStartEventsWrite ==
    [][/\ \/ stream_sid' = stream_sid
          \/ \A m \in InboundMsgs \ StartFrames : ~ReceiveMessage(m)
       /\ \A s \in Sids : ReceiveMessage(StartMsg(s)) => stream_sid' = s
       /\ ReceiveMessage(StartNoSid) => stream_sid' = None]_vars

C16_Witness ==
    /\ stream_sid = "MZ2"
    /\ lastEvent = "media"
    /\ Len(cbLog) = MaxCallbacks
    /\ nStops = 0

====
